---- MODULE Spec2Model ----
(***************************************************************************)
(* Model of the LLMs Full HTML generator: the summary provider pipeline    *)
(* (summarize_content and its two backends), the file reader (safe_read)   *)
(* and the document assembler (generate_llms_html).                        *)
(*                                                                         *)
(* Text is a sequence of strings.  A character read from a file, from the  *)
(* environment or from a backend response is one element; a literal of the *)
(* program (a template fragment, a placeholder message) is one element     *)
(* holding the whole literal.                                              *)
(***************************************************************************)
EXTENDS Integers, Sequences, FiniteSets, TLC

VARIABLES
    \* ---- process environment
    genProvider,     \* os.environ GEN_PROVIDER at import time (None: unset)
    orEnvKey,        \* os.environ OPENROUTER_API_KEY (None: unset)
    orFileKey,       \* text of ~/.api-openrouter (None: no such file)
    gemEnvKey,       \* os.environ GEMINI_API_KEY (None: unset)
    googleEnvKey,    \* os.environ GOOGLE_API_KEY (None: unset)
    gemFileKey,      \* text of ~/.api-gemini (None: no such file)
    genaiClient,     \* _GENAI_CLIENT, the module-level client cache
    mock,            \* TRUE when summarize_content is patched to a fixed summary
    \* ---- the file system
    fs,              \* the files under the scanned directory, by path
    outputInside,    \* TRUE when output_file lies in the scanned directory
    outside,         \* text of an output file outside the directory (None: none)
    \* ---- generate_llms_html
    pc,              \* "idle" | "md" | "md_sum" | "other" | "other_sum" | "done" | "aborted" | "test"
    run,             \* which run of the generator this is
    prevOutput,      \* the document the previous run wrote (None: no previous run)
    markdown_files,
    other_text_files,
    idx,             \* position of the loop in the list it walks
    api_key,
    html_content,
    toc_entries,     \* "".join(toc_entries)
    content_sections,\* "".join(content_sections)
    tocLog,          \* history: the table-of-contents entries appended, [path, id]
    secLog,          \* history: the section headings appended, [path, id, title]
    paraLog,         \* history: the summary paragraphs appended
    bodyLog,         \* history: the bodies appended
    sumLog,          \* history: the calls of summarize_content, [path, content]
    readNone,        \* history: the paths safe_read returned None for
    lastRead,        \* history: the last call of safe_read
    \* ---- one call of summarize_content
    sumPc,           \* "idle" | "openrouter" | "gemini" | "returned" | "raised"
    sumContent,      \* its content argument
    apiKeyGemini,    \* its api_key_gemini argument
    sumResult,       \* its return value
    orCalls,         \* calls of summarize_with_openrouter made by this call
    gemCalls,        \* calls of summarize_with_gemini made by this call
    netRequests,     \* network requests issued by this call
    orOutcome,       \* history: what the OpenRouter request met ("none": no request)
    gemOutcome,      \* history: what the Gemini request met ("none": no request)
    orResult,        \* history: what summarize_with_openrouter returned
    gemResult        \* history: what summarize_with_gemini returned

sumVars == <<sumPc, sumContent, apiKeyGemini, sumResult, orCalls, gemCalls,
             netRequests, orOutcome, gemOutcome, orResult, gemResult>>
envVars == <<genProvider, orEnvKey, orFileKey, gemEnvKey, googleEnvKey, gemFileKey, mock>>
fsVars == <<fs, outputInside, outside>>
logVars == <<tocLog, secLog, paraLog, bodyLog, sumLog, readNone, lastRead>>
docVars == <<html_content, toc_entries, content_sections>>
genVars == <<pc, run, prevOutput, markdown_files, other_text_files, idx, api_key,
             docVars, logVars>>
vars == <<envVars, genaiClient, sumVars, fsVars, genVars>>

----------------------------------------------------------------------------
(* Python values *)

\* None, kept apart from every text (no text holds the element "None").
None == <<"None">>

\* A test for None alone, which takes the empty text for a value.
IsNotNone(x) == x # None

\* Python truthiness of an Optional[str].
Truthy(x) == x # None /\ x # <<>>

\* x or y
Or(x, y) == IF Truthy(x) THEN x ELSE y

IsSpace(c) == c \in {" ", "\n"}

RECURSIVE LStrip(_)
LStrip(s) == IF s # <<>> /\ IsSpace(Head(s)) THEN LStrip(Tail(s)) ELSE s

RECURSIVE RStrip(_)
RStrip(s) ==
    IF s # <<>> /\ IsSpace(s[Len(s)]) THEN RStrip(SubSeq(s, 1, Len(s) - 1)) ELSE s

\* str.strip()
Strip(s) == RStrip(LStrip(s))

LowerChar(c) ==
    CASE c = "A" -> "a"
      [] c = "B" -> "b"
      [] c = "T" -> "t"
      [] c = "Gemini" -> "gemini"
      [] c = "OpenRouter" -> "openrouter"
      [] OTHER -> c

\* str.lower()
Lower(s) == [i \in 1..Len(s) |-> LowerChar(s[i])]

RECURSIVE Join(_)
\* "".join(texts)
Join(texts) == IF texts = <<>> THEN <<>> ELSE Head(texts) \o Join(Tail(texts))

\* [x for x in s if P(x)]
RECURSIVE SelectTruthy(_)
SelectTruthy(s) ==
    IF s = <<>> THEN <<>>
    ELSE IF Truthy(Head(s)) THEN <<Head(s)>> \o SelectTruthy(Tail(s))
    ELSE SelectTruthy(Tail(s))

----------------------------------------------------------------------------
(* Text operations of the document assembler *)

Min(S) == CHOOSE x \in S : \A y \in S : x <= y
Max(S) == CHOOSE x \in S : \A y \in S : x >= y

UpperChar(c) ==
    CASE c = "a" -> "A"
      [] c = "b" -> "B"
      [] c = "t" -> "T"
      [] OTHER -> c

IsAlpha(c) == c \in {"a", "b", "d", "m", "p", "s", "t", "y", "z", "A", "B", "T"}

\* str.title(): a letter that follows no letter is upper-cased, every other
\* letter lower-cased.
TitleCase(s) ==
    [i \in 1..Len(s) |->
        IF i = 1 \/ ~IsAlpha(s[i - 1]) THEN UpperChar(s[i]) ELSE LowerChar(s[i])]

\* s.startswith(sub) from position k on
OccursAt(s, sub, k) ==
    /\ k >= 1
    /\ k + Len(sub) - 1 <= Len(s)
    /\ SubSeq(s, k, k + Len(sub) - 1) = sub

\* s.endswith(sub)
EndsWith(s, sub) == OccursAt(s, sub, Len(s) - Len(sub) + 1)

\* s.find(sub), counted from 1; 0 when sub does not occur
Find(s, sub) ==
    LET at == {k \in 1..Len(s) : OccursAt(s, sub, k)}
    IN  IF at = {} THEN 0 ELSE Min(at)

\* s.replace(old, new, 1)
ReplaceFirst(s, old, new) ==
    LET k == Find(s, old)
    IN  IF k = 0 THEN s
        ELSE SubSeq(s, 1, k - 1) \o new \o SubSeq(s, k + Len(old), Len(s))

RECURSIVE ReplaceAll(_, _, _)
\* s.replace(old, new), for a non-empty old
ReplaceAll(s, old, new) ==
    LET k == Find(s, old)
    IN  IF k = 0 THEN s
        ELSE SubSeq(s, 1, k - 1) \o new
             \o ReplaceAll(SubSeq(s, k + Len(old), Len(s)), old, new)

\* os.path.basename(path)
Basename(path) ==
    LET slashes == {k \in 1..Len(path) : path[k] = "/"}
    IN  IF slashes = {} THEN path ELSE SubSeq(path, Max(slashes) + 1, Len(path))

\* html.escape(c) of one element of a text.  The literals of the output
\* template are elements too: the generator meets them when it reads a
\* document it wrote.
EscapeChar(c) ==
    CASE c = "&" -> "&amp;"
      [] c = "<" -> "&lt;"
      [] c = ">" -> "&gt;"
      [] c = "'" -> "&#x27;"
      [] c = "&lt;" -> "&amp;lt;"
      [] c = "&gt;" -> "&amp;gt;"
      [] c = "&amp;" -> "&amp;amp;"
      [] c = "<!DOCTYPE html>..<title>Project Documentation</title>..<h1>Project Documentation</h1><nav><h2>Table of Contents</h2><ol>"
           -> "&lt;!DOCTYPE html&gt;..&lt;title&gt;Project Documentation&lt;/title&gt;..&lt;h1&gt;Project Documentation&lt;/h1&gt;&lt;nav&gt;&lt;h2&gt;Table of Contents&lt;/h2&gt;&lt;ol&gt;"
      [] c = "<li><a href='#markdown-files'>Markdown Files</a></li>"
           -> "&lt;li&gt;&lt;a href=&#x27;#markdown-files&#x27;&gt;Markdown Files&lt;/a&gt;&lt;/li&gt;"
      [] c = "<li><a href='#code-files'>Code and Other Files</a></li>"
           -> "&lt;li&gt;&lt;a href=&#x27;#code-files&#x27;&gt;Code and Other Files&lt;/a&gt;&lt;/li&gt;"
      [] c = "<h2 id='markdown-files'>Markdown Files</h2><p>Comprehensive documentation of the project in Markdown format.</p>"
           -> "&lt;h2 id=&#x27;markdown-files&#x27;&gt;Markdown Files&lt;/h2&gt;&lt;p&gt;Comprehensive documentation of the project in Markdown format.&lt;/p&gt;"
      [] c = "<h2 id='code-files'>Code and Other Files</h2><p>Code snippets, scripts, and other relevant text files.</p>"
           -> "&lt;h2 id=&#x27;code-files&#x27;&gt;Code and Other Files&lt;/h2&gt;&lt;p&gt;Code snippets, scripts, and other relevant text files.&lt;/p&gt;"
      [] c = "<p><a href='#top'>Back to Table of Contents</a></p>"
           -> "&lt;p&gt;&lt;a href=&#x27;#top&#x27;&gt;Back to Table of Contents&lt;/a&gt;&lt;/p&gt;"
      [] c = "<li><a href='#" -> "&lt;li&gt;&lt;a href=&#x27;#"
      [] c = "'>" -> "&#x27;&gt;"
      [] c = "</a></li>" -> "&lt;/a&gt;&lt;/li&gt;"
      [] c = "<h2 id='" -> "&lt;h2 id=&#x27;"
      [] c = "</h2>" -> "&lt;/h2&gt;"
      [] c = "<p>Summary: " -> "&lt;p&gt;Summary: "
      [] c = "<p>Generated Summary: " -> "&lt;p&gt;Generated Summary: "
      [] c = "</p>" -> "&lt;/p&gt;"
      [] c = "<pre><code>" -> "&lt;pre&gt;&lt;code&gt;"
      [] c = "</code></pre>" -> "&lt;/code&gt;&lt;/pre&gt;"
      [] c = "</ol></nav><main>" -> "&lt;/ol&gt;&lt;/nav&gt;&lt;main&gt;"
      [] c = "</main></body></html>" -> "&lt;/main&gt;&lt;/body&gt;&lt;/html&gt;"
      [] OTHER -> c

\* html.escape(s)
Escape(s) == [i \in 1..Len(s) |-> EscapeChar(s[i])]

----------------------------------------------------------------------------
(* re.search(r"^<marker>\s+(.+)", content, re.MULTILINE) *)

NoMatch == [start |-> 0, gstart |-> 0, end |-> 0]

\* ^ under re.MULTILINE: the start of the text or the position after a newline
AtLineStart(s, i) == i = 1 \/ s[i - 1] = "\n"

\* the position after the longest run of whitespace that follows position i
WsEnd(s, i) == Min({j \in (i + 1)..(Len(s) + 1) : j = Len(s) + 1 \/ ~IsSpace(s[j])})

\* where (.+) can start when the marker is at i: after at least one whitespace
\* element of the run, at an element that is no newline
GroupStarts(s, i) ==
    {p \in (i + 2)..WsEnd(s, i) : p <= Len(s) /\ s[p] # "\n"}

\* the last element (.+) takes from p on: it stops before the next newline
LineEnd(s, p) == Min({e \in p..Len(s) : e = Len(s) \/ s[e + 1] = "\n"})

MatchesAt(s, marker, i) ==
    AtLineStart(s, i) /\ s[i] = marker /\ GroupStarts(s, i) # {}

\* The leftmost match; \s+ is greedy, so the group starts as late as it can.
ReSearch(marker, s) ==
    LET starts == {i \in 1..Len(s) : MatchesAt(s, marker, i)}
    IN  IF starts = {} THEN NoMatch
        ELSE LET i == Min(starts)
                 p == Max(GroupStarts(s, i))
             IN  [start |-> i, gstart |-> p, end |-> LineEnd(s, p)]

\* match.group(0) and match.group(1)
Group0(s, m) == SubSeq(s, m.start, m.end)
Group1(s, m) == SubSeq(s, m.gstart, m.end)

TitleMatch(content) == ReSearch("#", content)
\* A search for the summary line that never finds one.
SummaryMatchNone(content) == NoMatch
SummaryMatch(content) == ReSearch(">", content)

\* line 262: the heading's text, or a title made from the file name
MdTitle(path, content) ==
    IF TitleMatch(content) # NoMatch
    THEN Strip(Group1(content, TitleMatch(content)))
    ELSE TitleCase(ReplaceAll(ReplaceAll(Basename(path), <<".", "m", "d">>, <<>>),
                              <<"_">>, <<" ">>))

\* lines 263 and 301
SectionId(title) == ReplaceAll(Lower(title), <<" ">>, <<"-">>)

\* lines 281-285: the first occurrence of each matched text is replaced by ""
ContentToWrite(content) ==
    LET t == TitleMatch(content)
        m == SummaryMatch(content)
        c1 == IF t # NoMatch THEN ReplaceFirst(content, Group0(content, t), <<>>)
              ELSE content
    IN  IF m # NoMatch THEN ReplaceFirst(c1, Group0(content, m), <<>>) ELSE c1

----------------------------------------------------------------------------
(* Configuration and credentials *)

\* The provider as the environment spells it, neither stripped nor lower-cased.
DefaultProviderAsWritten ==
    IF genProvider \in {None, <<>>} THEN <<"openrouter">> ELSE genProvider

\* DEFAULT_PROVIDER = os.environ.get("GEN_PROVIDER", "openrouter").strip().lower() or "openrouter"
DEFAULT_PROVIDER ==
    Or(Lower(Strip(IF genProvider = None THEN <<"openrouter">> ELSE genProvider)),
       <<"openrouter">>)

\* _resolve_openrouter_api_key(): the environment first, then the key file.
ResolveOpenRouterApiKey ==
    IF Truthy(orEnvKey) /\ Truthy(Strip(orEnvKey)) THEN Strip(orEnvKey)
    ELSE IF orFileKey # None THEN Or(Strip(orFileKey), None)
    ELSE None

\* The fixed texts summarize_with_gemini returns when it has no summary.
GeminiNoKey == <<"Summary not available: Gemini API key not found.">>
GeminiEmpty == <<"Summary generation failed: Empty Gemini response.">>
GeminiNetwork == <<"Summary skipped due to Gemini network timeout.">>
GeminiInterrupted == <<"Summary skipped due to interruption.">>
GeminiApiError == <<"Summary skipped due to Gemini API error.">>

----------------------------------------------------------------------------
(* What a backend request can meet *)

\* The "content" field of the first choice of an OpenRouter reply.
OpenRouterContents == {None, <<>>, <<" ">>, <<"s">>, <<" ", "s", "\n">>, <<"<">>}

OpenRouterOutcomes ==
    [kind : {"timeout", "transport", "interrupt"}, status : {0}, body : {"none"},
     content : {None}]
    \cup [kind : {"response"}, status : {500}, body : {"choices"}, content : {None}]
    \cup [kind : {"response"}, status : {200}, body : {"malformed", "nochoices"},
          content : {None}]
    \cup [kind : {"response"}, status : {200}, body : {"choices"},
          content : OpenRouterContents]

\* The response object of generate_content: its text and its candidates, each
\* candidate given by the texts of its parts.
GeminiTexts == {None, <<>>, <<"g">>, <<"<">>}
GeminiCandidates ==
    { <<>>,
      << <<>> >>,
      << <<None, <<>>>> >>,
      << <<>>, <<None, <<"p">>, <<"q">>>> >> }

GeminiOutcomes ==
    [kind : {"clienterror", "timeout", "transport", "apierror", "interrupt"},
     text : {None}, candidates : {<<>>}]
    \cup [kind : {"response"}, text : GeminiTexts, candidates : GeminiCandidates]

----------------------------------------------------------------------------
(* summarize_with_openrouter, after the credential check: the value it returns
   for what the request met.  "raise" stands for an exception leaving it. *)
Raise == <<"raise">>

\* An OpenRouter call without the handler of line 171.
OpenRouterReturnUnguarded(o) ==
    CASE o.kind = "timeout" -> None
      [] o.kind \in {"transport", "interrupt"} -> Raise
      [] o.status # 200 -> None
      [] o.body = "malformed" -> Raise
      [] o.body = "nochoices" -> None
      [] OTHER -> Or(Strip(Or(o.content, <<>>)), None)

OpenRouterReturn(o) ==
    CASE o.kind = "timeout" -> None                  \* except requests.Timeout
      [] o.kind = "transport" -> None                \* except Exception
      [] o.kind = "interrupt" -> Raise               \* KeyboardInterrupt: no handler
      [] o.status # 200 -> None
      [] o.body = "malformed" -> None                \* resp.json() raises: except Exception
      [] o.body = "nochoices" -> None
      [] OTHER -> Or(Strip(Or(o.content, <<>>)), None)

RECURSIVE FirstCandidateText(_)
\* the loop over resp.candidates: the joined texts of the first candidate that has any
FirstCandidateText(cands) ==
    IF cands = <<>> THEN None
    ELSE IF SelectTruthy(Head(cands)) # <<>> THEN Join(SelectTruthy(Head(cands)))
    ELSE FirstCandidateText(Tail(cands))

\* summarize_with_gemini, after the credential check.
GeminiReturn(o) ==
    CASE o.kind = "timeout" -> GeminiNetwork
      [] o.kind = "transport" -> GeminiNetwork
      [] o.kind = "interrupt" -> GeminiInterrupted
      [] o.kind = "apierror" -> GeminiApiError
      [] o.kind = "clienterror" -> GeminiApiError
      [] Truthy(o.text) -> o.text
      [] FirstCandidateText(o.candidates) # None -> FirstCandidateText(o.candidates)
      [] OTHER -> GeminiEmpty

\* History: the class of what a request met, in the words of the failure taxonomy.
OpenRouterMet(o) ==
    IF o.kind # "response" THEN o.kind
    ELSE IF o.status # 200 THEN "non200"
    ELSE IF o.body # "choices" THEN o.body
    ELSE IF Truthy(OpenRouterReturn(o)) THEN "text" ELSE "empty"

GeminiMet(o) ==
    IF o.kind # "response" THEN o.kind
    ELSE IF GeminiReturn(o) = GeminiEmpty THEN "empty" ELSE "text"

----------------------------------------------------------------------------
(* summarize_content *)

\* A dispatch that takes every provider other than "openrouter" to Gemini.
FirstBackendOnlyNamed(provider) ==
    IF provider = <<"openrouter">> THEN "openrouter" ELSE "gemini"

\* The branch summarize_content takes: "openrouter" and every unknown provider
\* start with OpenRouter, "gemini" goes to Gemini alone.
FirstBackend(provider) ==
    IF provider = <<"gemini">> THEN "gemini" ELSE "openrouter"

\* Entry of summarize_content: the provider decides which backend is called first.
EnterSummarize(content, key) ==
    /\ sumContent' = content
    /\ apiKeyGemini' = key
    /\ sumPc' = FirstBackend(DEFAULT_PROVIDER)
    /\ sumResult' = None
    /\ orCalls' = 0
    /\ gemCalls' = 0
    /\ netRequests' = 0
    /\ orOutcome' = "none"
    /\ gemOutcome' = "none"
    /\ orResult' = None
    /\ gemResult' = None

\* The call summarize_with_openrouter(content) and the test of its result.
SummarizeWithOpenRouter ==
    /\ sumPc = "openrouter"
    /\ orCalls' = orCalls + 1
    /\ IF ~Truthy(ResolveOpenRouterApiKey)
       THEN /\ orResult' = None
            /\ sumPc' = "gemini"
            /\ UNCHANGED <<netRequests, orOutcome, sumResult>>
       ELSE \E o \in OpenRouterOutcomes :
            /\ netRequests' = netRequests + 1
            /\ orOutcome' = OpenRouterMet(o)
            /\ orResult' = OpenRouterReturn(o)
            /\ IF OpenRouterReturn(o) = Raise
               THEN sumPc' = "raised" /\ UNCHANGED sumResult
               ELSE IF Truthy(OpenRouterReturn(o))
               THEN sumPc' = "returned" /\ sumResult' = OpenRouterReturn(o)
               ELSE sumPc' = "gemini" /\ UNCHANGED sumResult
    /\ UNCHANGED <<envVars, genaiClient, sumContent, apiKeyGemini, gemCalls,
                   gemOutcome, gemResult, fsVars, genVars>>

\* The call summarize_with_gemini(content, api_key_gemini), whose value
\* summarize_content returns.
SummarizeWithGemini ==
    /\ sumPc = "gemini"
    /\ gemCalls' = gemCalls + 1
    /\ sumPc' = "returned"
    /\ IF ~Truthy(apiKeyGemini)
       THEN /\ gemResult' = GeminiNoKey
            /\ sumResult' = GeminiNoKey
            /\ UNCHANGED <<netRequests, gemOutcome, genaiClient>>
       ELSE \E o \in GeminiOutcomes :
            /\ (o.kind = "clienterror") => (genaiClient = None)
            /\ genaiClient' = IF o.kind = "clienterror" THEN None ELSE <<"client">>
            /\ netRequests' = IF o.kind = "clienterror" THEN netRequests
                              ELSE netRequests + 1
            /\ gemOutcome' = GeminiMet(o)
            /\ gemResult' = GeminiReturn(o)
            /\ sumResult' = GeminiReturn(o)
    /\ UNCHANGED <<envVars, sumContent, apiKeyGemini, orCalls, orOutcome, orResult,
                   fsVars, genVars>>

----------------------------------------------------------------------------
(* The file system and safe_read *)

NoFile == [kind |-> "absent", content |-> <<>>]

\* The paths os.walk(".") can yield in the model, as os.path.join(root, filename).
PathB == <<".", "/", "b", ".", "m", "d">>
PathZAB == <<".", "/", "z", "/", "a", "_", "b", ".", "m", "d">>
PathPy == <<".", "/", "A", " ", "b", ".", "p", "y">>
PathTxt == <<".", "/", "a", ".", "t", "x", "t">>
CandidatePaths == {PathB, PathZAB, PathPy, PathTxt}

\* output_file="llms-full.html", written to the scanned directory "."
OutputPath ==
    <<".", "/", "l", "l", "m", "s", "-", "f", "u", "l", "l", ".", "h", "t", "m", "l">>
Paths == CandidatePaths \cup {OutputPath}

\* for encoding in ('utf-8', 'latin-1')
ReadEncodings == <<"utf-8", "latin-1">>

\* What open(filepath, 'r', encoding=enc) and f.read() meet.  A "latin1" file
\* holds bytes that are no UTF-8; an "unreadable" or absent one raises an
\* OSError; a "vanishing" one is gone by the second attempt.
OpenOutcome(f, enc) ==
    CASE f.kind = "utf8" -> "ok"
      [] f.kind = "latin1" -> IF enc = "utf-8" THEN "decode" ELSE "ok"
      [] f.kind = "vanishing" -> IF enc = "utf-8" THEN "decode" ELSE "error"
      [] OTHER -> "error"

RECURSIVE SafeReadRetrying(_, _, _)
\* A reader that goes on to the next encoding after every error.
SafeReadRetrying(f, encs, tried) ==
    IF encs = <<>> THEN [text |-> None, tried |-> tried]
    ELSE LET o == OpenOutcome(f, Head(encs))
             t == Append(tried, <<Head(encs), o>>)
         IN  IF o = "ok" THEN [text |-> f.content, tried |-> t]
             ELSE SafeReadRetrying(f, Tail(encs), t)

RECURSIVE SafeReadFrom(_, _, _)
\* The loop of safe_read over the encodings still to try.
SafeReadFrom(f, encs, tried) ==
    IF encs = <<>> THEN [text |-> None, tried |-> tried]        \* lines 51-52
    ELSE LET o == OpenOutcome(f, Head(encs))
             t == Append(tried, <<Head(encs), o>>)
         IN  CASE o = "ok" -> [text |-> f.content, tried |-> t]
               [] o = "decode" -> SafeReadFrom(f, Tail(encs), t) \* continue
               [] OTHER -> [text |-> None, tried |-> t]          \* except Exception

\* A reader that hands back an empty text where safe_read hands back None.
SafeReadBlank(f) ==
    LET r == SafeReadFrom(f, ReadEncodings, <<>>)
    IN  [text |-> IF r.text = None THEN <<>> ELSE r.text, tried |-> r.tried]

\* safe_read(filepath), for the file at that path
SafeRead(f) == SafeReadFrom(f, ReadEncodings, <<>>)

----------------------------------------------------------------------------
(* The file classifier *)

MdSuffix == <<".", "m", "d">>
OtherSuffixes ==
    { <<".", "t", "x", "t">>, <<".", "p", "y">>, <<".", "j", "s">>,
      <<".", "h", "t", "m", "l">>, <<".", "s", "h">>, <<".", "r", "s">>,
      <<".", "t", "o", "m", "l">> }

IsMarkdown(path) == EndsWith(Basename(path), MdSuffix)
IsOtherText(path) ==
    ~IsMarkdown(path) /\ \E x \in OtherSuffixes : EndsWith(Basename(path), x)

\* ord(c)
Ord(c) ==
    CASE c = " " -> 32 [] c = "-" -> 45 [] c = "." -> 46 [] c = "/" -> 47
      [] c = "<" -> 60 [] c = "A" -> 65 [] c = "_" -> 95 [] c = "a" -> 97
      [] c = "b" -> 98 [] c = "d" -> 100 [] c = "f" -> 102 [] c = "h" -> 104
      [] c = "l" -> 108 [] c = "m" -> 109 [] c = "p" -> 112 [] c = "s" -> 115
      [] c = "t" -> 116 [] c = "u" -> 117 [] c = "x" -> 120 [] c = "y" -> 121
      [] c = "z" -> 122

\* a < b for two str
StrLess(a, b) ==
    \/ Len(a) < Len(b) /\ SubSeq(b, 1, Len(a)) = a
    \/ \E k \in 1..Len(a) :
          /\ k <= Len(b)
          /\ SubSeq(a, 1, k - 1) = SubSeq(b, 1, k - 1)
          /\ Ord(a[k]) < Ord(b[k])

RECURSIVE Insert(_, _)
Insert(x, s) ==
    IF s = <<>> THEN <<x>>
    ELSE IF StrLess(x, Head(s)) THEN <<x>> \o s
    ELSE <<Head(s)>> \o Insert(x, Tail(s))

\* A list left in the order the walk appended to it.
ListAsWalked(s) == s

RECURSIVE ListSort(_)
\* list.sort()
ListSort(s) == IF s = <<>> THEN <<>> ELSE Insert(Head(s), ListSort(Tail(s)))

\* The orders in which os.walk can yield the files present.
WalkOrders ==
    LET present == {p \in Paths : fs[p].kind # "absent"}
        n == Cardinality(present)
    IN  {o \in [1..n -> present] : \A i, j \in 1..n : o[i] = o[j] => i = j}

----------------------------------------------------------------------------
(* generate_llms_html *)

\* get_gemini_api_key(): the two environment variables, then the key file
GetGeminiApiKey ==
    IF Truthy(Or(gemEnvKey, googleEnvKey)) THEN Strip(Or(gemEnvKey, googleEnvKey))
    ELSE IF gemFileKey = None THEN None
    ELSE Strip(gemFileKey)

\* The literals of the output template.
ShellHead == "<!DOCTYPE html>..<title>Project Documentation</title>..<h1>Project Documentation</h1><nav><h2>Table of Contents</h2><ol>"
ShellMid == "</ol></nav><main>"
ShellTail == "</main></body></html>"
BackToTop == "<p><a href='#top'>Back to Table of Contents</a></p>"
MarkdownToc == "<li><a href='#markdown-files'>Markdown Files</a></li>"
MarkdownHead == "<h2 id='markdown-files'>Markdown Files</h2><p>Comprehensive documentation of the project in Markdown format.</p>"
CodeToc == "<li><a href='#code-files'>Code and Other Files</a></li>"
CodeHead == "<h2 id='code-files'>Code and Other Files</h2><p>Code snippets, scripts, and other relevant text files.</p>"

\* the return value of the patched summarize_content
MockSummary == <<"Mocked summary">>

\* lines 264 and 302
TocEntry(id, title) == <<"<li><a href='#">> \o id \o <<"'>">> \o title \o <<"</a></li>">>
\* lines 265-266 and 303-304
Heading(id, title) == <<"<h2 id='">> \o id \o <<"'>">> \o title \o <<"</h2>", BackToTop>>
\* line 273
InlineParagraph(summary) == <<"<p>Summary: ">> \o summary \o <<"</p>">>
\* lines 277 and 308
GeneratedParagraph(summary) == <<"<p>Generated Summary: ">> \o summary \o <<"</p>">>
\* lines 286 and 310
Body(text) == <<"<pre><code>">> \o Escape(Strip(text)) \o <<"</code></pre>">>

\* lines 312-323: the document written
Document ==
    html_content \o toc_entries \o <<ShellMid>> \o content_sections
    \o <<ShellTail, "\n", " ", " ", " ", " ">>

\* the text of the output file (None: not written yet)
OutputText ==
    IF ~outputInside THEN outside
    ELSE IF fs[OutputPath].kind = "absent" THEN None
    ELSE fs[OutputPath].content

\* The generator at rest, before a run.
GenIdle(at) ==
    /\ pc = at
    /\ run = 1
    /\ prevOutput = None
    /\ markdown_files = <<>>
    /\ other_text_files = <<>>
    /\ idx = 0
    /\ api_key = None
    /\ html_content = <<>>
    /\ toc_entries = <<>>
    /\ content_sections = <<>>
    /\ tocLog = <<>>
    /\ secLog = <<>>
    /\ paraLog = <<>>
    /\ bodyLog = <<>>
    /\ sumLog = <<>>
    /\ readNone = {}
    /\ lastRead = [path |-> <<>>, text |-> None, tried |-> <<>>]

SumIdle ==
    /\ sumPc' = "idle"
    /\ sumContent' = <<>>
    /\ apiKeyGemini' = None
    /\ sumResult' = None
    /\ orCalls' = 0
    /\ gemCalls' = 0
    /\ netRequests' = 0
    /\ orOutcome' = "none"
    /\ gemOutcome' = "none"
    /\ orResult' = None
    /\ gemResult' = None

\* Lines 203-253: the walk, the two sorted lists, the head of the document and
\* the heading of the Markdown group.
Generate ==
    /\ pc = "idle"
    /\ \E order \in WalkOrders :
          /\ markdown_files' = ListSort(SelectSeq(order, IsMarkdown))
          /\ other_text_files' = ListSort(SelectSeq(order, IsOtherText))
    /\ html_content' = <<"\n", ShellHead, MarkdownToc>>
    /\ toc_entries' = <<>>
    /\ content_sections' = <<MarkdownHead, BackToTop>>
    /\ api_key' = GetGeminiApiKey
    /\ pc' = "md"
    /\ idx' = 1
    /\ tocLog' = <<>>
    /\ secLog' = <<>>
    /\ paraLog' = <<>>
    /\ bodyLog' = <<>>
    /\ sumLog' = <<>>
    /\ readNone' = {}
    /\ UNCHANGED <<envVars, genaiClient, sumVars, fsVars, run, prevOutput, lastRead>>

\* Lines 255-286, one Markdown file: read, title, id, table-of-contents entry,
\* heading, then the inline summary and the body, or the call of
\* summarize_content.
MdFile ==
    /\ pc = "md"
    /\ idx <= Len(markdown_files)
    /\ LET path == markdown_files[idx]
           read == SafeRead(fs[path])
           content == read.text
           title == MdTitle(path, content)
           id == SectionId(title)
           m == SummaryMatch(content)
           summary == Strip(Group1(content, m))
       IN  /\ lastRead' = [path |-> path, text |-> read.text, tried |-> read.tried]
           /\ IF content = None
              THEN /\ readNone' = readNone \cup {path}
                   /\ idx' = idx + 1
                   /\ UNCHANGED <<pc, docVars, tocLog, secLog, paraLog, bodyLog,
                                  sumLog, sumVars>>
              ELSE /\ toc_entries' = toc_entries \o TocEntry(id, title)
                   /\ tocLog' = Append(tocLog, [path |-> path, id |-> id])
                   /\ secLog' = Append(secLog, [path |-> path, id |-> id, title |-> title])
                   /\ UNCHANGED <<html_content, readNone>>
                   /\ IF m # NoMatch
                      THEN /\ content_sections' =
                                content_sections \o Heading(id, title)
                                \o InlineParagraph(summary)
                                \o Body(ContentToWrite(content))
                           /\ paraLog' = Append(paraLog,
                                [path |-> path, origin |-> "inline", summary |-> summary])
                           /\ bodyLog' = Append(bodyLog,
                                [path |-> path, content |-> content,
                                 written |-> ContentToWrite(content)])
                           /\ idx' = idx + 1
                           /\ UNCHANGED <<pc, sumLog, sumVars>>
                      ELSE /\ sumLog' = Append(sumLog, [path |-> path, content |-> content])
                           /\ IF mock
                              THEN /\ content_sections' =
                                        content_sections \o Heading(id, title)
                                        \o GeneratedParagraph(MockSummary)
                                        \o Body(ContentToWrite(content))
                                   /\ paraLog' = Append(paraLog,
                                        [path |-> path, origin |-> "generated",
                                         summary |-> MockSummary])
                                   /\ bodyLog' = Append(bodyLog,
                                        [path |-> path, content |-> content,
                                         written |-> ContentToWrite(content)])
                                   /\ idx' = idx + 1
                                   /\ UNCHANGED <<pc, sumVars>>
                              ELSE /\ content_sections' =
                                        content_sections \o Heading(id, title)
                                   /\ EnterSummarize(content, api_key)
                                   /\ pc' = "md_sum"
                                   /\ UNCHANGED <<idx, paraLog, bodyLog>>
    /\ UNCHANGED <<envVars, genaiClient, fsVars, run, prevOutput, markdown_files,
                   other_text_files, api_key>>

\* Lines 276-286 after summarize_content has returned.
MdSummarized ==
    /\ pc = "md_sum"
    /\ sumPc = "returned"
    /\ LET path == markdown_files[idx]
       IN  /\ content_sections' =
                content_sections \o GeneratedParagraph(sumResult)
                \o Body(ContentToWrite(sumContent))
           /\ paraLog' = Append(paraLog,
                [path |-> path, origin |-> "generated", summary |-> sumResult])
           /\ bodyLog' = Append(bodyLog,
                [path |-> path, content |-> sumContent,
                 written |-> ContentToWrite(sumContent)])
    /\ idx' = idx + 1
    /\ pc' = "md"
    /\ SumIdle
    /\ UNCHANGED <<envVars, genaiClient, fsVars, run, prevOutput, markdown_files,
                   other_text_files, api_key, html_content, toc_entries, tocLog,
                   secLog, sumLog, readNone, lastRead>>

\* Lines 288-293: the heading of the group of the other files.
OtherSection ==
    /\ pc = "md"
    /\ idx > Len(markdown_files)
    /\ html_content' = html_content \o <<CodeToc>>
    /\ content_sections' = content_sections \o <<CodeHead, BackToTop>>
    /\ pc' = "other"
    /\ idx' = 1
    /\ UNCHANGED <<envVars, genaiClient, sumVars, fsVars, run, prevOutput,
                   markdown_files, other_text_files, api_key, toc_entries, logVars>>

\* Lines 295-310, one other file: read, title, id, entry, heading and the call
\* of summarize_content.
OtherFile ==
    /\ pc = "other"
    /\ idx <= Len(other_text_files)
    /\ LET path == other_text_files[idx]
           read == SafeRead(fs[path])
           content == read.text
           title == Basename(path)
           id == SectionId(title)
       IN  /\ lastRead' = [path |-> path, text |-> read.text, tried |-> read.tried]
           /\ IF content = None
              THEN /\ readNone' = readNone \cup {path}
                   /\ idx' = idx + 1
                   /\ UNCHANGED <<pc, docVars, tocLog, secLog, paraLog, bodyLog,
                                  sumLog, sumVars>>
              ELSE /\ toc_entries' = toc_entries \o TocEntry(id, title)
                   /\ tocLog' = Append(tocLog, [path |-> path, id |-> id])
                   /\ secLog' = Append(secLog, [path |-> path, id |-> id, title |-> title])
                   /\ sumLog' = Append(sumLog, [path |-> path, content |-> content])
                   /\ UNCHANGED <<html_content, readNone>>
                   /\ IF mock
                      THEN /\ content_sections' =
                                content_sections \o Heading(id, title)
                                \o GeneratedParagraph(MockSummary) \o Body(content)
                           /\ paraLog' = Append(paraLog,
                                [path |-> path, origin |-> "generated",
                                 summary |-> MockSummary])
                           /\ bodyLog' = Append(bodyLog,
                                [path |-> path, content |-> content, written |-> content])
                           /\ idx' = idx + 1
                           /\ UNCHANGED <<pc, sumVars>>
                      ELSE /\ content_sections' = content_sections \o Heading(id, title)
                           /\ EnterSummarize(content, api_key)
                           /\ pc' = "other_sum"
                           /\ UNCHANGED <<idx, paraLog, bodyLog>>
    /\ UNCHANGED <<envVars, genaiClient, fsVars, run, prevOutput, markdown_files,
                   other_text_files, api_key>>

\* Lines 307-310 after summarize_content has returned.
OtherSummarized ==
    /\ pc = "other_sum"
    /\ sumPc = "returned"
    /\ LET path == other_text_files[idx]
       IN  /\ content_sections' =
                content_sections \o GeneratedParagraph(sumResult) \o Body(sumContent)
           /\ paraLog' = Append(paraLog,
                [path |-> path, origin |-> "generated", summary |-> sumResult])
           /\ bodyLog' = Append(bodyLog,
                [path |-> path, content |-> sumContent, written |-> sumContent])
    /\ idx' = idx + 1
    /\ pc' = "other"
    /\ SumIdle
    /\ UNCHANGED <<envVars, genaiClient, fsVars, run, prevOutput, markdown_files,
                   other_text_files, api_key, html_content, toc_entries, tocLog,
                   secLog, sumLog, readNone, lastRead>>

\* An exception that leaves summarize_content leaves generate_llms_html as
\* well: nothing on the way catches it, and the output file is not written.
Interrupted ==
    /\ pc \in {"md_sum", "other_sum"}
    /\ sumPc = "raised"
    /\ pc' = "aborted"
    /\ UNCHANGED <<envVars, genaiClient, sumVars, fsVars, run, prevOutput,
                   markdown_files, other_text_files, idx, api_key, docVars, logVars>>

\* Lines 312-328: the document is put together and written to output_file.
WriteOutput ==
    /\ pc = "other"
    /\ idx > Len(other_text_files)
    /\ html_content' = Document
    /\ IF outputInside
       THEN /\ fs' = [fs EXCEPT ![OutputPath] = [kind |-> "utf8", content |-> Document]]
            /\ UNCHANGED outside
       ELSE /\ outside' = Document
            /\ UNCHANGED fs
    /\ pc' = "done"
    /\ UNCHANGED <<envVars, genaiClient, sumVars, outputInside, run, prevOutput,
                   markdown_files, other_text_files, idx, api_key, toc_entries,
                   content_sections, logVars>>

\* The generator is run once more on the directory as the first run left it,
\* with the summary provider still patched.
RunAgain ==
    /\ pc = "done"
    /\ run = 1
    /\ mock
    /\ run' = 2
    /\ prevOutput' = OutputText
    /\ pc' = "idle"
    /\ UNCHANGED <<envVars, genaiClient, sumVars, fsVars, markdown_files,
                   other_text_files, idx, api_key, docVars, logVars>>

----------------------------------------------------------------------------
(* SpecSum: summarize_content called on its own, as the test suite calls it *)

ProviderValues ==
    {None, <<>>, <<"openrouter">>, <<"gemini">>, <<" ", "Gemini", "\n">>, <<"claude">>}
OpenRouterEnvValues == {None, <<" ">>, <<"k">>}
OpenRouterFileValues == {None, <<>>, <<"k", "\n">>}
GeminiKeyValues == {None, <<>>, <<"k">>}
TestContent == <<"c">>

InitSum ==
    /\ genProvider \in ProviderValues
    /\ orEnvKey \in OpenRouterEnvValues
    /\ orFileKey \in OpenRouterFileValues
    /\ gemEnvKey = None
    /\ googleEnvKey = None
    /\ gemFileKey = None
    /\ mock = FALSE
    /\ genaiClient = None
    /\ fs = [p \in Paths |-> NoFile]
    /\ outputInside = FALSE
    /\ outside = None
    /\ GenIdle("test")
    /\ sumPc = "idle"
    /\ sumContent = <<>>
    /\ apiKeyGemini \in GeminiKeyValues
    /\ sumResult = None
    /\ orCalls = 0
    /\ gemCalls = 0
    /\ netRequests = 0
    /\ orOutcome = "none"
    /\ gemOutcome = "none"
    /\ orResult = None
    /\ gemResult = None

\* result = summarize_content(self.test_content, key)
TestSummarizeContent ==
    /\ sumPc = "idle"
    /\ EnterSummarize(TestContent, apiKeyGemini)
    /\ UNCHANGED <<envVars, genaiClient, fsVars, genVars>>

NextSum ==
    \/ TestSummarizeContent
    \/ SummarizeWithOpenRouter
    \/ SummarizeWithGemini

SpecSum == InitSum /\ [][NextSum]_vars

----------------------------------------------------------------------------
(* Spec: runs of generate_llms_html over a small directory *)

MaxFiles == 2

ContentInline == <<"#", " ", "T", "\n", ">", " ", "s", "\n", "b">>
ContentTitled == <<"#", " ", "T", "\n", "b">>
ContentPlain == <<"b">>

FileValues ==
    [kind : {"utf8"}, content : {ContentInline, ContentTitled, ContentPlain}]
    \cup [kind : {"unreadable"}, content : {<<>>}]

Directories ==
    {d \in [Paths -> FileValues \cup {NoFile}] :
        /\ d[OutputPath] = NoFile
        /\ Cardinality({p \in Paths : d[p] # NoFile}) <= MaxFiles}

\* The settings of the environment a run is started under.
RunEnvs ==
    { [provider |-> None, orEnv |-> <<"k">>, orFile |-> None,
       gemEnv |-> <<"k">>, google |-> None, gemFile |-> None],
      [provider |-> <<"gemini">>, orEnv |-> None, orFile |-> None,
       gemEnv |-> None, google |-> <<"g", " ">>, gemFile |-> None],
      [provider |-> None, orEnv |-> None, orFile |-> None,
       gemEnv |-> None, google |-> None, gemFile |-> None],
      [provider |-> <<"claude">>, orEnv |-> <<" ">>, orFile |-> <<"k", "\n">>,
       gemEnv |-> <<>>, google |-> None, gemFile |-> <<"\n">>] }

InitEnv(e) ==
    /\ genProvider = e.provider
    /\ orEnvKey = e.orEnv
    /\ orFileKey = e.orFile
    /\ gemEnvKey = e.gemEnv
    /\ googleEnvKey = e.google
    /\ gemFileKey = e.gemFile

InitSumIdle ==
    /\ sumPc = "idle"
    /\ sumContent = <<>>
    /\ apiKeyGemini = None
    /\ sumResult = None
    /\ orCalls = 0
    /\ gemCalls = 0
    /\ netRequests = 0
    /\ orOutcome = "none"
    /\ gemOutcome = "none"
    /\ orResult = None
    /\ gemResult = None

Init ==
    /\ \E e \in RunEnvs : InitEnv(e)
    /\ mock \in BOOLEAN
    /\ genaiClient = None
    /\ fs \in Directories
    /\ outputInside \in BOOLEAN
    /\ outside = None
    /\ InitSumIdle
    /\ GenIdle("idle")

Next ==
    \/ Generate
    \/ MdFile
    \/ MdSummarized
    \/ OtherSection
    \/ OtherFile
    \/ OtherSummarized
    \/ SummarizeWithOpenRouter
    \/ SummarizeWithGemini
    \/ Interrupted
    \/ WriteOutput
    \/ RunAgain

Spec == Init /\ [][Next]_vars

----------------------------------------------------------------------------
(* SpecText: one run over a directory that holds one Markdown file, whose
   text is every sequence of at most MaxLines of the lines below *)

MaxLines == 3

LineTexts ==
    { <<"#", " ", "T">>, <<"a", "#", " ", "T">>, <<">", " ", "s">>,
      <<"b", ">", " ", "s">>, <<"b">>, <<>>, <<"#", " ", "<">> }

RECURSIVE JoinLines(_)
JoinLines(ls) ==
    IF Len(ls) = 0 THEN <<>>
    ELSE IF Len(ls) = 1 THEN ls[1]
    ELSE ls[1] \o <<"\n">> \o JoinLines(Tail(ls))

TextContents ==
    {JoinLines(ls) : ls \in UNION {[1..n -> LineTexts] : n \in 1..MaxLines}}

TextFiles ==
    [kind : {"utf8", "latin1", "vanishing"}, content : TextContents]
    \cup [kind : {"unreadable"}, content : {<<>>}]

InitText ==
    /\ genProvider = None
    /\ orEnvKey = None
    /\ orFileKey = None
    /\ gemEnvKey = None
    /\ googleEnvKey = None
    /\ gemFileKey = None
    /\ mock = TRUE
    /\ genaiClient = None
    /\ \E f \in TextFiles : fs = [p \in Paths |-> IF p = PathZAB THEN f ELSE NoFile]
    /\ outputInside = FALSE
    /\ outside = None
    /\ InitSumIdle
    /\ GenIdle("idle")

NextText ==
    \/ Generate
    \/ MdFile
    \/ OtherSection
    \/ WriteOutput

SpecText == InitText /\ [][NextText]_vars

----------------------------------------------------------------------------
(* Claims about summarize_content, checked under SpecSum *)

Absent == {None, <<>>}
GeminiPlaceholders ==
    {GeminiNoKey, GeminiEmpty, GeminiNetwork, GeminiInterrupted, GeminiApiError}
ProviderIsGemini == genProvider \in {<<"gemini">>, <<" ", "Gemini", "\n">>}

\* C1: with the provider OpenRouter (the default) or an unrecognised one,
\* summarize_content calls OpenRouter once; when that returns None or an empty
\* result Gemini is called exactly once and its result is the one returned;
\* when OpenRouter returns text, that text is returned and Gemini is not called.
C1_FallbackToGemini ==
    /\ gemCalls <= 1
    /\ (~ProviderIsGemini /\ sumPc = "returned") =>
          /\ orCalls = 1
          /\ IF orResult \in Absent
             THEN gemCalls = 1 /\ sumResult = gemResult
             ELSE gemCalls = 0 /\ gemOutcome = "none" /\ sumResult = orResult
    /\ (~ProviderIsGemini /\ sumPc = "gemini") => (orCalls = 1 /\ orResult \in Absent)

C1_Witness ==
    /\ genProvider = <<"claude">>
    /\ sumPc = "returned"
    /\ orOutcome = "non200"
    /\ gemCalls = 1
    /\ sumResult = <<"p", "q">>

\* C2: with the provider Gemini, summarize_content calls Gemini directly and
\* never calls OpenRouter, whatever the Gemini call meets (a failure, an absent
\* credential).
C2_GeminiNeverCallsOpenRouter ==
    ProviderIsGemini =>
        /\ orCalls = 0
        /\ orOutcome = "none"
        /\ sumPc # "openrouter"
        /\ (sumPc = "returned" => gemCalls = 1 /\ sumResult = gemResult)

C2_Witness ==
    /\ genProvider = <<" ", "Gemini", "\n">>
    /\ ResolveOpenRouterApiKey = <<"k">>
    /\ sumPc = "returned"
    /\ gemOutcome = "apierror"
    /\ orCalls = 0

\* C3: a backend whose credential is absent (None or empty) issues no network
\* request: summarize_with_openrouter returns None, summarize_with_gemini
\* returns "Summary not available: Gemini API key not found."; with neither
\* credential summarize_content returns that text with zero requests, under
\* every provider setting.
C3_NoCredentialNoRequest ==
    /\ (ResolveOpenRouterApiKey \in Absent) =>
          (orOutcome = "none" /\ orResult = None)
    /\ (apiKeyGemini \in Absent) =>
          (gemOutcome = "none" /\ (gemCalls = 1 => gemResult = GeminiNoKey))
    /\ (ResolveOpenRouterApiKey \in Absent /\ apiKeyGemini \in Absent) =>
          /\ netRequests = 0
          /\ sumPc # "raised"
          /\ (sumPc = "returned" => sumResult = GeminiNoKey)
    /\ netRequests = (IF orOutcome = "none" THEN 0 ELSE 1)
                     + (IF gemOutcome \in {"none", "clienterror"} THEN 0 ELSE 1)

C3_Witness ==
    /\ orEnvKey = <<" ">>
    /\ orFileKey = <<>>
    /\ apiKeyGemini = <<>>
    /\ genProvider = None
    /\ sumPc = "returned"
    /\ orCalls = 1
    /\ gemCalls = 1
    /\ netRequests = 0
    /\ sumResult = GeminiNoKey

FailedOpenRouter == {"timeout", "transport", "non200", "malformed", "nochoices", "empty"}
FailedGemini == {"timeout", "transport", "apierror", "clienterror", "empty"}

\* C4: whatever the two backends meet among success, timeout, transport error,
\* non-success status and empty or malformed body, summarize_content raises
\* nothing and returns a non-empty text: a failing OpenRouter call is turned
\* into "no summary" and Gemini is tried, a failing Gemini call is turned into
\* a fixed placeholder.
C4_FailuresContained ==
    /\ (sumPc = "raised") => (orOutcome = "interrupt")
    /\ (sumPc = "returned") => (sumResult \notin {None, <<>>, Raise})
    /\ (orOutcome \in FailedOpenRouter) =>
          /\ orResult = None
          /\ sumPc \in {"gemini", "returned"}
          /\ (sumPc = "returned" => gemCalls = 1)
    /\ (gemOutcome \in FailedGemini) =>
          /\ gemResult \in GeminiPlaceholders
          /\ sumPc = "returned"
          /\ sumResult = gemResult

C4_Witness ==
    /\ orOutcome = "transport"
    /\ gemOutcome = "timeout"
    /\ sumPc = "returned"
    /\ sumResult = GeminiNetwork

----------------------------------------------------------------------------
(* Claims about generate_llms_html, checked under Spec *)

Range(q) == {q[i] : i \in 1..Len(q)}
LogPaths(log) == {log[i].path : i \in 1..Len(log)}
Listed == Range(markdown_files) \cup Range(other_text_files)
FailingFiles == {p \in Paths : fs[p].kind \in {"unreadable", "vanishing"}}

\* C5: an operator interrupt raised during the network call of either backend
\* is caught inside the summary pipeline and turned into a placeholder, so the
\* run goes on and writes the output file: no interrupt leaves
\* summarize_content and no run is aborted.
C5_InterruptContained ==
    /\ sumPc # "raised"
    /\ pc # "aborted"
    /\ (gemOutcome = "interrupt" => sumResult = GeminiInterrupted)

\* C6: a file whose read fails leaves no table-of-contents entry, no section,
\* no summary paragraph, no body and no summary request; the files that can be
\* read are all processed, and the run ends by writing the output file, which
\* holds "Project Documentation" and "Table of Contents".  A run that stops
\* short has been stopped by an interrupt leaving summarize_content, never by
\* a read.
C6_ReadFailuresSkipped ==
    /\ readNone \subseteq FailingFiles
    /\ \A p \in FailingFiles :
          /\ p \notin LogPaths(tocLog) \cup LogPaths(secLog) \cup LogPaths(paraLog)
          /\ p \notin LogPaths(bodyLog) \cup LogPaths(sumLog)
    /\ (pc = "done") =>
          /\ readNone = Listed \cap FailingFiles
          /\ LogPaths(tocLog) = Listed \ FailingFiles
          /\ LogPaths(secLog) = Listed \ FailingFiles
          /\ LogPaths(paraLog) = Listed \ FailingFiles
          /\ LogPaths(bodyLog) = Listed \ FailingFiles
          /\ OutputText # None
          /\ OutputText = html_content
          /\ ShellHead \in Range(OutputText)
    /\ (pc = "aborted") => (~mock /\ sumPc = "raised" /\ orOutcome = "interrupt")

C6_Witness ==
    /\ pc = "done"
    /\ ~mock
    /\ readNone = {PathB}
    /\ LogPaths(secLog) = {PathPy}
    /\ ShellHead \in Range(OutputText)

\* C8: two runs in succession on the same directory, with the summary provider
\* patched to a fixed summary and no source file changed in between, write the
\* same document, wherever the output file lies.
C8_Idempotent ==
    (pc = "done" /\ run = 2) => (OutputText = prevOutput)

\* The anchor ids a document holds after each occurrence of an opening literal
\* of the per-file template, in document order.
IdAfter(doc, k) ==
    LET close == Min({j \in (k + 1)..Len(doc) : doc[j] = "'>"})
    IN  SubSeq(doc, k + 1, close - 1)
IdsOf(doc, opener) ==
    LET at == SelectSeq([i \in 1..Len(doc) |-> i], LAMBDA i : doc[i] = opener)
    IN  [n \in 1..Len(at) |-> IdAfter(doc, at[n])]
DocTocIds == IdsOf(OutputText, "<li><a href='#")
DocSectionIds == IdsOf(OutputText, "<h2 id='")

\* The files the walk of this run met and safe_read can read.  The output file
\* of the first run is met by the second run only.
WalkedReadable ==
    {p \in Paths : /\ fs[p].kind \in {"utf8", "latin1"}
                   /\ (p = OutputPath => run = 2)}

\* Markdown files before the other files, and sorted paths within each group.
InOrder(p, q) ==
    \/ IsMarkdown(p) /\ ~IsMarkdown(q)
    \/ IsMarkdown(p) = IsMarkdown(q) /\ StrLess(p, q)

\* C11: in every document written, the anchor ids of the per-file
\* table-of-contents entries, read in document order, are the ids of the
\* per-file sections, read in document order: one entry per section, with the
\* same id, for the readable Markdown files in sorted path order and then the
\* readable other files in sorted path order.
C11_TocMatchesSections ==
    /\ Len(tocLog) = Len(secLog)
    /\ \A i \in 1..Len(tocLog) :
          tocLog[i].path = secLog[i].path /\ tocLog[i].id = secLog[i].id
    /\ (pc = "done") =>
          /\ DocTocIds = DocSectionIds
          /\ DocTocIds = [i \in 1..Len(tocLog) |-> tocLog[i].id]
          /\ LogPaths(tocLog) = WalkedReadable
          /\ Len(tocLog) = Cardinality(WalkedReadable)
          /\ \A i, j \in 1..Len(tocLog) :
                i < j => InOrder(tocLog[i].path, tocLog[j].path)
          /\ \A i \in 1..Len(tocLog) :
                LET p == tocLog[i].path
                IN  tocLog[i].id =
                        SectionId(IF IsMarkdown(p) THEN MdTitle(p, fs[p].content)
                                  ELSE Basename(p))

C11_Witness ==
    /\ pc = "done"
    /\ ~mock
    /\ Len(markdown_files) = 1
    /\ Len(other_text_files) = 1
    /\ DocTocIds = << <<"t">>, <<"a", "-", "b", ".", "p", "y">> >>
    /\ DocSectionIds = << <<"t">>, <<"a", "-", "b", ".", "p", "y">> >>

\* The first position of a content where a line starts with "> " and goes on
\* with text (0: no such line), and the text of that line after the "> ".
InlineLineAt(content) ==
    LET at == {k \in 1..(Len(content) - 2) :
                 /\ AtLineStart(content, k)
                 /\ content[k] = ">"
                 /\ content[k + 1] = " "
                 /\ ~IsSpace(content[k + 2])}
    IN  IF at = {} THEN 0 ELSE Min(at)
HasInlineLine(content) == InlineLineAt(content) # 0
InlineLineText(content) ==
    LET k == InlineLineAt(content)
    IN  Strip(SubSeq(content, k + 2, LineEnd(content, k + 2)))

\* The text safe_read gave for a path in this run: the second run reads the
\* output file as the first run wrote it.
ContentRead(p) == IF p = OutputPath THEN prevOutput ELSE fs[p].content

\* The files of this run that need a generated summary.
NeedsGenerated(p) == ~IsMarkdown(p) \/ ~HasInlineLine(ContentRead(p))

NoPathTwice(log) ==
    \A i, j \in 1..Len(log) : log[i].path = log[j].path => i = j

Count(doc, literal) == Cardinality({i \in 1..Len(doc) : doc[i] = literal})

----------------------------------------------------------------------------
(* Claims about one Markdown file and about safe_read, checked under SpecText *)

\* C7: every text of the document that comes from a source file or a summary
\* is HTML-escaped, so no "<" of a file is live markup in the document.
C7_OutputEscaped ==
    (pc = "done") => ("<" \notin Range(OutputText))

\* A removal of the two matched lines by their positions in the content.
ContentToWriteByPosition(content) ==
    LET t == TitleMatch(content)
        m == SummaryMatch(content)
        gone == (IF t = NoMatch THEN {} ELSE t.start..t.end)
                \cup (IF m = NoMatch THEN {} ELSE m.start..m.end)
        kept == SelectSeq([i \in 1..Len(content) |-> <<i, content[i]>>],
                          LAMBDA e : e[1] \notin gone)
    IN  [i \in 1..Len(kept) |-> kept[i][2]]

\* C9: the body written for a Markdown file is its content without the matched
\* title line and the matched summary line, each removed where it was matched,
\* and with nothing else changed.
C9_MatchedLinesRemoved ==
    \A i \in 1..Len(bodyLog) :
        TitleMatch(bodyLog[i].content) # NoMatch =>
            bodyLog[i].written = ContentToWriteByPosition(bodyLog[i].content)

\* C10: safe_read raises nothing and returns the file's text or None; it tries
\* UTF-8 first, tries Latin-1 only after a decoding failure of UTF-8, and after
\* any other error returns None at once, with no further attempt.
C10_SafeReadContract ==
    LET t == lastRead.tried
    IN  (lastRead.path # <<>>) =>
          /\ lastRead.text \in {None, fs[lastRead.path].content}
          /\ lastRead.text # Raise
          /\ Len(t) \in {1, 2}
          /\ t[1][1] = "utf-8"
          /\ (Len(t) = 2) => (t[1][2] = "decode" /\ t[2][1] = "latin-1")
          /\ (t[1][2] # "decode") => (Len(t) = 1)
          /\ (t[Len(t)][2] = "error") => (lastRead.text = None)
          /\ (t[Len(t)][2] = "ok") => (lastRead.text = fs[lastRead.path].content)
          /\ (lastRead.text = None) => (t[Len(t)][2] # "ok")

C10_Witness ==
    /\ lastRead.path = PathZAB
    /\ lastRead.tried = << <<"utf-8", "decode">>, <<"latin-1", "ok">> >>
    /\ lastRead.text = <<"#", " ", "T", "\n", ">", " ", "s">>
    /\ pc = "done"

====
